---- MODULE Spec2Model ----
(***************************************************************************)
(* A model of pentops/jsonapi-request: the parameter sanitizer, the query  *)
(* string builder, the two request assemblers, the request executor with   *)
(* its trace-id generator slot, and the cancellable wrapper.               *)
(*                                                                         *)
(* Text (URLs, query strings, JSON text) is a sequence of tokens: a token  *)
(* is either one delimiter character ("/", ":", "?", "&", "=", "[", ...)    *)
(* or a word that holds no delimiter.  The empty string is <<>>.           *)
(***************************************************************************)
EXTENDS Integers, Sequences, FiniteSets, TLC

VARIABLES
  input,      \* the value the caller passes to the pure function under test
  op,         \* the operation that has been called on it ("none" before)
  ret,        \* what the call returned (or how it raised)
  after,      \* the caller's own objects as they are after the call
  uuid,       \* the module-level generator slot: "undefined" or "v4"
  loader,     \* where the load started at module initialization stands
  slotWrites, \* how many times the slot has been assigned
  started,    \* how many requests have been made
  traceIds,   \* the trace id of every request made, in order
  req         \* the request in hand: its position, arguments, options sent,
              \* response and outcome

pureVars == <<input, op, ret, after>>
loadVars == <<uuid, loader, slotWrites>>
requestVars == <<started, traceIds, req>>
vars == <<input, op, ret, after, uuid, loader, slotWrites, started, traceIds, req>>

(***************************************************************************)
(* JavaScript values                                                       *)
(***************************************************************************)
Null == [t |-> "null"]
Undefined == [t |-> "undefined"]
Str(s) == [t |-> "string", s |-> s]
Num(n) == [t |-> "number", n |-> n]
Bool(b) == [t |-> "boolean", b |-> b]
DateOf(iso) == [t |-> "date", d |-> iso]
Arr(xs) == [t |-> "array", a |-> xs]
\* an object is the sequence of its own enumerable entries, in insertion order
Obj(es) == [t |-> "object", o |-> es]
Entry(k, v) == [k |-> k, v |-> v]

EmptyStr == Str(<<>>)
ADate == DateOf(<<"2020-01-01T00", ":", "00", ":", "00.000Z">>)

\* typeof v === 'object' (null, arrays and dates included)
TypeofObject(v) == v.t \in {"null", "array", "date", "object"}

\* the truthiness JavaScript gives a value in a condition
Truthy(v) ==
  CASE v.t \in {"null", "undefined"} -> FALSE
    [] v.t = "string" -> v.s # <<>>
    [] v.t = "number" -> v.n # 0
    [] v.t = "boolean" -> v.b
    [] OTHER -> TRUE

Keys(es) == {es[i].k : i \in DOMAIN es}
HasKey(o, k) == k \in Keys(o.o)
\* o[k]: the value of the entry, undefined when there is none
Get(o, k) ==
  IF HasKey(o, k)
  THEN (CHOOSE e \in {o.o[i] : i \in DOMAIN o.o} : e.k = k).v
  ELSE Undefined
\* delete o[k]
Delete(o, k) == Obj(SelectSeq(o.o, LAMBDA e : e.k # k))

RECURSIVE Flatten(_)
\* the concatenation of a sequence of texts
Flatten(ts) == IF ts = <<>> THEN <<>> ELSE Head(ts) \o Flatten(Tail(ts))

RECURSIVE Join(_, _)
\* Array.prototype.join on texts
Join(ts, sep) ==
  IF ts = <<>> THEN <<>>
  ELSE IF Len(ts) = 1 THEN ts[1]
  ELSE ts[1] \o sep \o Join(Tail(ts), sep)

(***************************************************************************)
(* prepareParameters: the parameter sanitizer                              *)
(***************************************************************************)
\* params === '' || params === undefined || params === null
IsAbsent(v) == v.t \in {"null", "undefined"} \/ (v.t = "string" /\ v.s = <<>>)

\* a variant that also leaves out an entry whose value is an empty container
SkippedOrEmptyContainer(v) ==
  \/ IsAbsent(v)
  \/ (v.t = "array" /\ v.a = <<>>)
  \/ (v.t = "object" /\ v.o = <<>>)

\* ['', null, undefined].includes(v): the entry is left out of the result
Skipped(v) == IsAbsent(v)

\* if (prepared): the element is pushed onto the result
Pushed(prepared) == Truthy(prepared)

RECURSIVE prepareParameters(_)
prepareParameters(params) ==
  IF IsAbsent(params) THEN Null
  ELSE IF params.t = "array" THEN
    LET prepared == [i \in DOMAIN params.a |-> prepareParameters(params.a[i])]
    IN Arr(SelectSeq(prepared, Pushed))
  ELSE IF params.t = "date" THEN params
  ELSE IF params.t = "object" THEN
    LET kept == SelectSeq(params.o, LAMBDA e : ~Skipped(e.v))
    IN Obj([i \in DOMAIN kept |-> Entry(kept[i].k, prepareParameters(kept[i].v))])
  ELSE params

(***************************************************************************)
(* JSON.stringify, and the deep copy JSON.parse(JSON.stringify(v))         *)
(***************************************************************************)
Quote == "\""
Quoted(text) == <<Quote>> \o text \o <<Quote>>

RECURSIVE JSONStringify(_)
\* the JSON text of a value (never called on a bare undefined)
JSONStringify(v) ==
  CASE v.t \in {"null", "undefined"} -> <<"null">>
    [] v.t = "string" -> Quoted(v.s)
    [] v.t = "number" -> <<ToString(v.n)>>
    [] v.t = "boolean" -> <<IF v.b THEN "true" ELSE "false">>
    [] v.t = "date" -> Quoted(v.d)
    [] v.t = "array" ->
         <<"[">> \o Join([i \in DOMAIN v.a |-> JSONStringify(v.a[i])], <<",">>) \o <<"]">>
    [] v.t = "object" ->
         LET own == SelectSeq(v.o, LAMBDA e : e.v.t # "undefined")
         IN <<"{">>
            \o Join([i \in DOMAIN own |->
                       Quoted(<<own[i].k>>) \o <<":">> \o JSONStringify(own[i].v)],
                    <<",">>)
            \o <<"}">>

RECURSIVE JSONClone(_)
\* JSON.parse(JSON.stringify(v)): a fresh structure; an undefined entry is
\* left out, an undefined element becomes null, a date becomes its ISO text
JSONClone(v) ==
  CASE v.t = "undefined" -> Null
    [] v.t = "date" -> Str(v.d)
    [] v.t = "array" -> Arr([i \in DOMAIN v.a |-> JSONClone(v.a[i])])
    [] v.t = "object" ->
         LET own == SelectSeq(v.o, LAMBDA e : e.v.t # "undefined")
         IN Obj([i \in DOMAIN own |-> Entry(own[i].k, JSONClone(own[i].v))])
    [] OTHER -> v

(***************************************************************************)
(* qs.stringify(obj, { addQueryPrefix: true, arrayFormat: 'repeat',        *)
(*                     allowDots: true, skipNulls: true })                 *)
(***************************************************************************)
\* the percent-encoding of one token: words are unreserved characters
PctEncode(tok) ==
  CASE tok = "[" -> "%5B"
    [] tok = "]" -> "%5D"
    [] tok = "{" -> "%7B"
    [] tok = "}" -> "%7D"
    [] tok = Quote -> "%22"
    [] tok = "," -> "%2C"
    [] tok = ":" -> "%3A"
    [] tok = "/" -> "%2F"
    [] tok = "?" -> "%3F"
    [] tok = "&" -> "%26"
    [] tok = "=" -> "%3D"
    [] OTHER -> tok
Encode(text) == [i \in DOMAIN text |-> PctEncode(text[i])]

\* String(v) of a primitive, and the ISO text of a date
ToText(v) ==
  CASE v.t = "string" -> v.s
    [] v.t = "number" -> <<ToString(v.n)>>
    [] v.t = "boolean" -> <<IF v.b THEN "true" ELSE "false">>
    [] v.t = "date" -> v.d
    [] v.t = "null" -> <<>>
    [] v.t = "undefined" -> <<>>

\* Object.keys and the entries behind them: an array's are its indices
OwnEntries(v) ==
  CASE v.t = "object" -> v.o
    [] v.t = "array" -> [i \in DOMAIN v.a |-> Entry(ToString(i - 1), v.a[i])]
    [] OTHER -> <<>>

RECURSIVE QsPairs(_, _)
\* the 'key=value' pairs qs emits for a value under a key prefix
QsPairs(prefix, v) ==
  CASE v.t \in {"null", "undefined"} -> <<>>
    [] v.t \in {"string", "number", "boolean", "date"} ->
         <<Encode(prefix) \o <<"=">> \o Encode(ToText(v))>>
    [] v.t = "array" ->
         Flatten([i \in DOMAIN v.a |-> QsPairs(prefix, v.a[i])])
    [] v.t = "object" ->
         Flatten([i \in DOMAIN v.o |->
                    QsPairs(prefix \o <<"." \o v.o[i].k>>, v.o[i].v)])

stringify(obj) ==
  IF obj.t \notin {"object", "array"} THEN <<>>
  ELSE
    LET es == OwnEntries(obj)
        pairs == Flatten([i \in DOMAIN es |-> QsPairs(<<es[i].k>>, es[i].v)])
    IN IF pairs = <<>> THEN <<>> ELSE <<"?">> \o Join(pairs, <<"&">>)

(***************************************************************************)
(* buildSearchString                                                       *)
(***************************************************************************)
\* typeof preparedParams[key] === 'object' && !(... instanceof Date)
ConvertedToJSON(v) == TypeofObject(v) /\ v.t # "date"

\* the forEach over Object.keys(preparedParams) that replaces structured values
JSONConverted(preparedParams) ==
  LET es == OwnEntries(preparedParams)
      conv(v) == IF ConvertedToJSON(v) THEN Str(JSONStringify(v)) ELSE v
  IN IF preparedParams.t = "object"
       THEN Obj([i \in DOMAIN es |-> Entry(es[i].k, conv(es[i].v))])
     ELSE IF preparedParams.t = "array"
       THEN Arr([i \in DOMAIN es |-> conv(es[i].v)])
     ELSE preparedParams

buildSearchString(params) ==
  LET preparedParams == prepareParameters(params)
  IN IF ~Truthy(preparedParams) THEN <<>>
     ELSE stringify(IF TypeofObject(preparedParams)
                      THEN JSONConverted(preparedParams)
                      ELSE preparedParams)

\* prepareParameters returns params itself for a date or a scalar, and a new
\* array or mapping otherwise (reduce from [] and {})
PreparedIsParams(params) == params.t \notin {"array", "object"}

\* the caller's own params value after buildSearchString(params): the forEach
\* assigns into preparedParams, which is the caller's value only where
\* prepareParameters handed the very same value back
AfterBuildSearchString(params) ==
  LET preparedParams == prepareParameters(params)
  IN IF PreparedIsParams(params) /\ Truthy(preparedParams)
          /\ TypeofObject(preparedParams)
       THEN JSONConverted(preparedParams)
       ELSE params

(***************************************************************************)
(* Path resolution: new URL(unboundPath, basePath).pathname, split('/'),   *)
(* substitution of the ':name' segments, join('/')                         *)
(***************************************************************************)
\* an absolute URL starts with its scheme, "//" and its host
IsAbsoluteURL(text) == Len(text) >= 3 /\ text[1] = "https:" /\ text[2] = "//"
PathOf(text) == SubSeq(text, 4, Len(text))

RECURSIVE SplitOn(_, _)
\* String.prototype.split(sep): the texts between the separators
SplitOn(text, sep) ==
  IF \A i \in DOMAIN text : text[i] # sep THEN <<text>>
  ELSE LET i == CHOOSE j \in DOMAIN text :
                  text[j] = sep /\ \A h \in 1..(j - 1) : text[h] # sep
       IN <<SubSeq(text, 1, i - 1)>> \o SplitOn(SubSeq(text, i + 1, Len(text)), sep)

\* the text before the first '?' or '#'
BeforeQuery(text) ==
  IF \A i \in DOMAIN text : text[i] \notin {"?", "#"} THEN text
  ELSE LET i == CHOOSE j \in DOMAIN text :
                  text[j] \in {"?", "#"} /\ \A h \in 1..(j - 1) : text[h] \notin {"?", "#"}
       IN SubSeq(text, 1, i - 1)

\* the base's path without its last segment, ending in '/'
Directory(path) ==
  IF \A i \in DOMAIN path : path[i] # "/" THEN <<"/">>
  ELSE LET i == CHOOSE j \in DOMAIN path :
                  path[j] = "/" /\ \A h \in (j + 1)..Len(path) : path[h] # "/"
       IN SubSeq(path, 1, i)

\* new URL(url, base).pathname; "TypeError" when the base is no absolute URL
URLPathname(url, base) ==
  IF ~IsAbsoluteURL(base) THEN [raised |-> TRUE, pathname |-> <<>>]
  ELSE LET rel == BeforeQuery(url)
           basePathname == IF PathOf(base) = <<>> THEN <<"/">> ELSE BeforeQuery(PathOf(base))
       IN [raised |-> FALSE,
           pathname |-> IF rel = <<>> THEN basePathname
                        ELSE IF rel[1] = "/" THEN rel
                        ELSE Directory(basePathname) \o rel]

RECURSIVE ConcatTokens(_)
\* the string a text spells
ConcatTokens(text) == IF text = <<>> THEN "" ELSE Head(text) \o ConcatTokens(Tail(text))

RECURSIVE SegmentText(_)
\* what join('/') writes for an element: '' for undefined and null, its string
\* form otherwise
SegmentText(v) ==
  CASE v.t \in {"null", "undefined"} -> <<>>
    [] v.t = "array" -> Join([i \in DOMAIN v.a |-> SegmentText(v.a[i])], <<",">>)
    [] v.t = "object" -> <<"[object Object]">>
    [] v.t = "date" -> <<"Wed Jan 01 2020 00", ":", "00", ":", "00 GMT+0000">>
    [] OTHER -> ToText(v)

IsPathParameter(segment) == segment # <<>> /\ segment[1] = ":"
PathParameterKey(segment) == ConcatTokens(Tail(segment))

\* the keys of the ':name' segments of a pathname
PathParameterKeys(pathname) ==
  LET urlSegments == SplitOn(pathname, "/")
  IN {PathParameterKey(urlSegments[i]) :
        i \in {j \in DOMAIN urlSegments : IsPathParameter(urlSegments[j])}}

RECURSIVE BindSegments(_, _, _, _)
\* the loop over urlSegments from index i on: each ':name' segment becomes
\* source[name], and in merged mode the key is then deleted from the source
BindSegments(urlSegments, i, source, deleting) ==
  IF i > Len(urlSegments) THEN [urlSegments |-> urlSegments, source |-> source]
  ELSE IF IsPathParameter(urlSegments[i])
    THEN LET key == PathParameterKey(urlSegments[i])
         IN BindSegments([urlSegments EXCEPT ![i] = SegmentText(Get(source, key))],
                         i + 1,
                         IF deleting THEN Delete(source, key) ELSE source,
                         deleting)
  ELSE BindSegments(urlSegments, i + 1, source, deleting)

\* { ...o, [k]: v }
Put(o, k, v) ==
  IF HasKey(o, k)
    THEN Obj([i \in DOMAIN o.o |-> IF o.o[i].k = k THEN Entry(k, v) ELSE o.o[i]])
    ELSE Obj(Append(o.o, Entry(k, v)))

\* x || {}
OrEmptyObject(x) == IF Truthy(x) THEN x ELSE Obj(<<>>)

Raised(name) == [raised |-> TRUE, error |-> name]
Returned(method, url, init) ==
  [raised |-> FALSE, method |-> method, url |-> url, init |-> init]

(***************************************************************************)
(* buildMergedRequestInit                                                  *)
(***************************************************************************)
\* a variant that works on the caller's own object
SharedParams(params) == [value |-> OrEmptyObject(params), fresh |-> FALSE]

\* const paramCopy = JSON.parse(JSON.stringify(params || {})): a new value
ParamCopy(params) == [value |-> JSONClone(OrEmptyObject(params)), fresh |-> TRUE]

\* the call: what it returns (or raises), and the caller's params afterwards
buildMergedRequestInit(method, basePath, unboundPath, params, requestInit) ==
  LET paramCopy == ParamCopy(params)
      resolved == IF basePath # <<>> THEN URLPathname(unboundPath, basePath)
                  ELSE [raised |-> FALSE, pathname |-> unboundPath]
      pathname == resolved.pathname
      bound == BindSegments(SplitOn(pathname, "/"), 1, paramCopy.value, TRUE)
      remaining == bound.source
      fullPath == basePath \o Join(bound.urlSegments, <<"/">>)
  IN IF resolved.raised
       THEN [ret |-> Raised("TypeError"), params |-> params]
       ELSE [ret |-> IF method = "GET"
                       THEN Returned(method, fullPath \o buildSearchString(remaining),
                                     requestInit)
                       ELSE Returned(method, fullPath,
                                     Put(OrEmptyObject(requestInit), "body", remaining)),
             params |-> IF paramCopy.fresh THEN params ELSE remaining]

(***************************************************************************)
(* buildSplitRequestInit                                                   *)
(***************************************************************************)
buildSplitRequestInit(method, basePath, unboundPath, pathParameters, queryParameters, body, requestInit) ==
  LET resolved == IF basePath # <<>> THEN URLPathname(unboundPath, basePath)
                  ELSE [raised |-> FALSE, pathname |-> unboundPath]
      pathname == resolved.pathname
      urlSegments == SplitOn(pathname, "/")
      joined == Join(IF Truthy(pathParameters)
                       THEN BindSegments(urlSegments, 1, pathParameters, FALSE).urlSegments
                       ELSE urlSegments,
                     <<"/">>)
      fullPath == basePath \o joined \o buildSearchString(queryParameters)
  IN IF resolved.raised
       THEN [ret |-> Raised("TypeError"),
             pathParameters |-> pathParameters,
             queryParameters |-> queryParameters,
             body |-> body]
       ELSE [ret |-> Returned(method, fullPath,
                              Put(OrEmptyObject(requestInit), "body", body)),
             pathParameters |-> pathParameters,
             queryParameters |-> AfterBuildSearchString(queryParameters),
             body |-> body]

(***************************************************************************)
(* APIError                                                                *)
(***************************************************************************)
\* String(v)
StringOf(v) == IF v.t \in {"null", "undefined"} THEN <<v.t>> ELSE SegmentText(v)

\* errorResponse?.name
OptionalField(errorResponse, name) ==
  IF errorResponse.t = "object" THEN Get(errorResponse, name) ELSE Undefined

\* a variant that prefers the 'message' field
MessageFirst(status, errorResponse) ==
  LET error == OptionalField(errorResponse, "error")
      message == OptionalField(errorResponse, "message")
  IN IF Truthy(message) THEN StringOf(message)
     ELSE IF Truthy(error) THEN StringOf(error)
     ELSE <<ToString(status)>>

\* errorResponse?.error || errorResponse?.message || status, as super(message)
\* stores it
ErrorMessage(status, errorResponse) ==
  LET error == OptionalField(errorResponse, "error")
      message == OptionalField(errorResponse, "message")
  IN IF Truthy(error) THEN StringOf(error)
     ELSE IF Truthy(message) THEN StringOf(message)
     ELSE <<ToString(status)>>

APIError(status, requestIdentifier, traceId, errorResponse) ==
  [name |-> "APIError",
   message |-> ErrorMessage(status, errorResponse),
   status |-> status,
   requestIdentifier |-> requestIdentifier,
   traceId |-> traceId]

(***************************************************************************)
(* processResponse                                                         *)
(***************************************************************************)
Blob == [t |-> "blob"]
FormData == [t |-> "formdata"]

\* rawResponse.json(), .blob(), .formData(), .text() on the payload received
ReadJSON(payload) ==
  IF payload.kind = "json" THEN [raised |-> FALSE, value |-> payload.value]
  ELSE [raised |-> TRUE, error |-> [name |-> "SyntaxError"]]
ReadFormData(payload) ==
  IF payload.kind = "form" THEN [raised |-> FALSE, value |-> FormData]
  ELSE [raised |-> TRUE, error |-> [name |-> "TypeError"]]
ReadText(payload) ==
  [raised |-> FALSE,
   value |-> IF payload.kind = "json" THEN Str(JSONStringify(payload.value))
             ELSE Str(<<"a", "=", "1">>)]

processResponse(rawResponse) ==
  CASE rawResponse.contentType = "application/json" -> ReadJSON(rawResponse.payload)
    [] rawResponse.contentType = "application/pdf" -> [raised |-> FALSE, value |-> Blob]
    [] rawResponse.contentType \in {"multipart/form-data",
                                    "application/x-www-form-urlencoded"} ->
         ReadFormData(rawResponse.payload)
    [] OTHER -> ReadText(rawResponse.payload)

(***************************************************************************)
(* makeRequest and makeCancellableRequest                                  *)
(***************************************************************************)
RECURSIVE Spread(_, _)
\* { ...o, ...es }: the entries es laid over o
Spread(o, es) == IF es = <<>> THEN o ELSE Spread(Put(o, Head(es).k, Head(es).v), Tail(es))

CallerSignal == [t |-> "signal", of |-> "caller"]
ControllerSignal == [t |-> "signal", of |-> "controller"]

\* a variant that hands out one and the same id
SameTraceId(slot, n) == IF slot = "v4" THEN <<"uuid", "0">> ELSE <<>>

\* let traceId = ''; if (uuid) traceId = uuid(): the n-th id generated
TraceId(slot, n) == IF slot = "v4" THEN <<"uuid", ToString(n)>> ELSE <<>>

\* a variant that lays the defaults over the caller's options
DefaultsLast(method, traceId, request) ==
  LET given == OrEmptyObject(request)
      headers == Get(given, "headers")
      requestInit == Delete(Delete(given, "body"), "headers")
      defaults == <<Entry("method", Str(<<method>>)),
                    Entry("credentials", Str(<<"include">>)),
                    Entry("mode", Str(<<"cors">>))>>
      merged == Put(Spread(requestInit, defaults), "headers",
                    Spread(Obj(<<Entry("Accept", Str(<<"application/json">>)),
                                 Entry("Content-Type", Str(<<"application/json">>)),
                                 Entry("X-Trace", Str(traceId))>>),
                           OwnEntries(headers)))
      body == Get(given, "body")
  IN IF Truthy(body) THEN Put(merged, "body", Str(JSONStringify(body))) ELSE merged

\* const { body, headers, ...requestInit } = request || {}, then requestOptions
RequestOptions(method, traceId, request) ==
  LET given == OrEmptyObject(request)
      headers == Get(given, "headers")
      requestInit == Delete(Delete(given, "body"), "headers")
      defaults == Obj(<<Entry("method", Str(<<method>>)),
                        Entry("credentials", Str(<<"include">>)),
                        Entry("mode", Str(<<"cors">>))>>)
      merged == Put(Spread(defaults, requestInit.o), "headers",
                    Spread(Obj(<<Entry("Accept", Str(<<"application/json">>)),
                                 Entry("Content-Type", Str(<<"application/json">>)),
                                 Entry("X-Trace", Str(traceId))>>),
                           OwnEntries(headers)))
      body == Get(given, "body")
  IN IF Truthy(body) THEN Put(merged, "body", Str(JSONStringify(body))) ELSE merged

\* a variant in which the caller's own signal wins
SignalFirst(request) == Spread(Obj(<<Entry("signal", ControllerSignal)>>),
                               OwnEntries(OrEmptyObject(request)))

\* { ...request, signal: controller.signal }
WithControllerSignal(request) == Put(OrEmptyObject(request), "signal", ControllerSignal)

\* `${method}:${path}`
RequestIdentifier(method, path) == <<method, ":">> \o path

\* a variant that checks response.ok before the body is parsed
CheckBeforeParsing(r, response) ==
  IF ~response.ok
    THEN [r EXCEPT !.pc = "settled", !.response = response,
                   !.steps = r.steps \o <<"check">>,
                   !.outcome = [kind |-> "rejected",
                                error |-> APIError(response.status,
                                                   RequestIdentifier(r.method, r.path),
                                                   r.traceId, Undefined)]]
    ELSE [r EXCEPT !.pc = "parsing", !.response = response]

\* the continuation of `await fetch(...)`: processResponse is awaited next
AfterFetch(r, response) == [r EXCEPT !.pc = "parsing", !.response = response]

\* the continuation of `await processResponse(response)`: a parse error
\* propagates; otherwise the ok check throws the APIError or the body returns
AfterParse(r) ==
  LET parsed == processResponse(r.response)
  IN IF parsed.raised
       THEN [r EXCEPT !.pc = "settled", !.steps = r.steps \o <<"parse">>,
                      !.outcome = [kind |-> "rejected", error |-> parsed.error]]
     ELSE IF ~r.response.ok
       THEN [r EXCEPT !.pc = "settled", !.steps = r.steps \o <<"parse", "check">>,
                      !.responseBody = parsed.value,
                      !.outcome = [kind |-> "rejected",
                                   error |-> APIError(r.response.status,
                                                      RequestIdentifier(r.method, r.path),
                                                      r.traceId, parsed.value)]]
     ELSE [r EXCEPT !.pc = "settled", !.steps = r.steps \o <<"parse", "check">>,
                    !.responseBody = parsed.value,
                    !.outcome = [kind |-> "resolved", value |-> parsed.value]]

(***************************************************************************)
(* Bounds and the inputs the calls are made with                           *)
(***************************************************************************)
MaxLen == 2        \* the longest array a caller passes
MaxKeys == 2       \* the most entries of a mapping a caller passes
MaxRequests == 2   \* the number of requests made in one run

SeqsUpTo(S, n) == UNION {[1..k -> S] : k \in 0..n}
IsInjective(ks) == \A i, j \in DOMAIN ks : ks[i] = ks[j] => i = j
\* the mappings with at most n entries, keys among K (each once, in any
\* order), values among S
ObjectsOver(K, S, n) ==
  UNION {{Obj([i \in DOMAIN ks |-> Entry(ks[i], vs[i])]) : vs \in [DOMAIN ks -> S]} :
           ks \in {q \in SeqsUpTo(K, n) : IsInjective(q)}}

Atoms == {Null, Undefined, EmptyStr, Str(<<"a">>), Num(0), Bool(FALSE), Bool(TRUE), ADate}
\* an atom, or a container that holds at most one atom
Inner ==
  Atoms \cup {Arr(<<>>), Obj(<<>>)}
        \cup {Arr(<<x>>) : x \in Atoms}
        \cup {Obj(<<Entry("a", x)>>) : x \in Atoms}
\* arrays whose elements are all non-empty scalars
ScalarLists == {Arr(xs) : xs \in SeqsUpTo({Str(<<"a">>), Str(<<"b">>), Bool(TRUE)}, MaxLen)}

\* three levels: a container in a container around an inner value
Deep ==
  {Arr(<<Arr(<<x>>)>>) : x \in Inner}
    \cup {Arr(<<Obj(<<Entry("id", x)>>)>>) : x \in Inner}
    \cup {Obj(<<Entry("id", Arr(<<x>>))>>) : x \in Inner}
    \cup {Obj(<<Entry("id", Obj(<<Entry("tags", x)>>))>>) : x \in Inner}

SanitizerInputs ==
  Inner
    \cup Deep
    \cup {Arr(xs) : xs \in SeqsUpTo(Inner, MaxLen)}
    \cup ObjectsOver({"id", "tags"}, Inner, MaxKeys)
    \cup ObjectsOver({"id", "tags"}, ScalarLists \cup {Str(<<"42">>)}, MaxKeys)

Methods == {"GET", "POST", "DELETE"}
BasePaths == {<<>>, <<"/", "api", "/", "v1">>,
              <<"https:", "//", "host", "/", "api", "/", "v1">>}
UnboundPaths == {<<"/", "users", "/", ":", "id">>,
                 <<"/", "login">>,
                 <<"users", "/", ":", "id", "/", "tags", "/", ":", "tags">>}
RequestInits == {Undefined, Obj(<<Entry("cache", Str(<<"no-store">>))>>)}

GetUserParams == Obj(<<Entry("id", Str(<<"42">>)), Entry("active", Bool(TRUE))>>)
LoginRequest == Obj(<<Entry("username", Str(<<"a">>)), Entry("password", Str(<<"b">>))>>)
ParameterValues ==
  {Str(<<"42">>), Bool(TRUE), EmptyStr,
   Arr(<<Str(<<"a">>), Str(<<"b">>)>>), Obj(<<Entry("from", EmptyStr)>>)}
AssemblerInputs ==
  {Undefined, Null, GetUserParams, LoginRequest}
    \cup ObjectsOver({"id", "active", "tags"}, ParameterValues, MaxKeys)
PathParameterSources ==
  {Undefined, Obj(<<Entry("id", Str(<<"7">>))>>),
   Obj(<<Entry("id", Num(7)), Entry("tags", ADate)>>)}
Bodies == {Undefined, LoginRequest}

Paths == {<<"/", "api", "/", "users", "/", "42">>}
CallerRequests ==
  {Undefined,
   Obj(<<Entry("credentials", Str(<<"omit">>))>>),
   Obj(<<Entry("mode", Str(<<"same-origin">>))>>),
   Obj(<<Entry("method", Str(<<"PUT">>))>>),
   Obj(<<Entry("headers", Obj(<<Entry("X-Trace", Str(<<"mine">>))>>))>>),
   Obj(<<Entry("headers", Obj(<<Entry("Authorization", Str(<<"token">>))>>))>>),
   Obj(<<Entry("body", LoginRequest)>>),
   Obj(<<Entry("signal", CallerSignal)>>)}

Statuses == {200, 404}
ContentTypes == {"application/json", "application/pdf", "multipart/form-data",
                 "text/plain"}
Payloads ==
  {[kind |-> "json", value |-> Obj(<<Entry("error", Str(<<"not found">>))>>)],
   [kind |-> "json", value |-> Obj(<<Entry("message", Str(<<"gone">>))>>)],
   [kind |-> "json", value |-> Obj(<<Entry("message", Str(<<"gone">>)),
                                     Entry("error", Str(<<"denied">>))>>)],
   [kind |-> "json", value |-> Obj(<<Entry("user", Str(<<"u">>))>>)],
   [kind |-> "form"],
   [kind |-> "text"]}
\* response.ok: the status is in the range 200-299
Response(status, contentType, payload) ==
  [status |-> status, ok |-> status \in 200..299,
   contentType |-> contentType, payload |-> payload]

(***************************************************************************)
(* The state before any call, and the pure calls                           *)
(***************************************************************************)
NoResponse == Response(0, "", [kind |-> "none"])
IdleRequest ==
  [pc |-> "idle", method |-> "GET", path |-> <<>>, request |-> Undefined,
   cancellable |-> FALSE, traceId |-> <<>>, slotAtRead |-> "undefined",
   requestOptions |-> Obj(<<>>), aborted |-> FALSE, abortedInFlight |-> FALSE,
   response |-> NoResponse, responseBody |-> Undefined, steps |-> <<>>,
   outcome |-> [kind |-> "pending"]]

\* module initialization has run: the slot is unset, loadUUID is suspended at
\* its `await import('uuid')`, and no request has been made
InitModule ==
  /\ uuid = "undefined"
  /\ loader = "importing"
  /\ slotWrites = 0
  /\ started = 0
  /\ traceIds = <<>>
  /\ req = IdleRequest

NoCall == [name |-> "none"]
InitPure(inputs) ==
  /\ input \in inputs
  /\ op = NoCall
  /\ ret = Null
  /\ after = Null

CallPrepareParameters ==
  /\ op = NoCall
  /\ op' = [name |-> "prepareParameters"]
  /\ ret' = prepareParameters(input)
  /\ after' = input
  /\ UNCHANGED <<input, loadVars, requestVars>>

\* the sanitizer applied to its own result
CallPrepareParametersAgain ==
  /\ op.name = "prepareParameters"
  /\ op' = [name |-> "prepareParametersAgain"]
  /\ ret' = prepareParameters(ret)
  /\ UNCHANGED <<input, after, loadVars, requestVars>>

CallBuildSearchString ==
  /\ op = NoCall
  /\ op' = [name |-> "buildSearchString"]
  /\ ret' = buildSearchString(input)
  /\ after' = AfterBuildSearchString(input)
  /\ UNCHANGED <<input, loadVars, requestVars>>

CallBuildMergedRequestInit ==
  /\ op = NoCall
  /\ \E method \in Methods, basePath \in BasePaths, unboundPath \in UnboundPaths,
        requestInit \in RequestInits :
       LET call == buildMergedRequestInit(method, basePath, unboundPath, input,
                                          requestInit)
       IN /\ op' = [name |-> "buildMergedRequestInit", method |-> method,
                    basePath |-> basePath, unboundPath |-> unboundPath,
                    requestInit |-> requestInit]
          /\ ret' = call.ret
          /\ after' = [params |-> call.params]
  /\ UNCHANGED <<input, loadVars, requestVars>>

\* input is the query-parameter value here
CallBuildSplitRequestInit ==
  /\ op = NoCall
  /\ \E method \in {"GET", "POST"}, basePath \in BasePaths,
        unboundPath \in UnboundPaths, pathParameters \in PathParameterSources,
        body \in Bodies :
       LET call == buildSplitRequestInit(method, basePath, unboundPath,
                                         pathParameters, input, body, Undefined)
       IN /\ op' = [name |-> "buildSplitRequestInit", method |-> method,
                    basePath |-> basePath, unboundPath |-> unboundPath,
                    pathParameters |-> pathParameters, body |-> body]
          /\ ret' = call.ret
          /\ after' = [pathParameters |-> call.pathParameters,
                       queryParameters |-> call.queryParameters,
                       body |-> call.body]
  /\ UNCHANGED <<input, loadVars, requestVars>>

InitSanitizer == InitPure(SanitizerInputs) /\ InitModule
NextSanitizer ==
  \/ CallPrepareParameters
  \/ CallPrepareParametersAgain
  \/ CallBuildSearchString
SpecSanitizer == InitSanitizer /\ [][NextSanitizer]_vars

InitAssembler == InitPure(AssemblerInputs) /\ InitModule
NextAssembler ==
  \/ CallBuildMergedRequestInit
  \/ CallBuildSplitRequestInit
SpecAssembler == InitAssembler /\ [][NextAssembler]_vars

(***************************************************************************)
(* The load of the generator, and the requests                             *)
(***************************************************************************)
\* `await import('uuid')` resolves: uuid = uuidModule.v4
ImportResolves ==
  /\ loader = "importing"
  /\ uuid = "undefined"
  /\ uuid' = "v4"
  /\ slotWrites' = slotWrites + 1
  /\ loader' = "loaded"
  /\ UNCHANGED <<pureVars, requestVars>>

\* the import rejects (the peer dependency is missing): catch {} swallows it
ImportRejects ==
  /\ loader = "importing"
  /\ loader' = "failed"
  /\ UNCHANGED <<pureVars, uuid, slotWrites, requestVars>>

Generated == Len(SelectSeq(traceIds, LAMBDA id : id # <<>>))

\* makeRequest up to its `await fetch(path, requestOptions)`
makeRequest(method, path, request, given, cancellable) ==
  LET traceId == TraceId(uuid, Generated + 1)
  IN [IdleRequest EXCEPT
        !.pc = "fetching", !.method = method, !.path = path,
        !.request = request, !.cancellable = cancellable,
        !.traceId = traceId, !.slotAtRead = uuid,
        !.requestOptions = RequestOptions(method, traceId, given),
        !.steps = <<"fetch">>]

CallMakeRequest ==
  /\ req.pc \in {"idle", "settled"}
  /\ started < MaxRequests
  /\ \E method \in {"GET", "POST"}, path \in Paths, request \in CallerRequests :
       req' = makeRequest(method, path, request, request, FALSE)
  /\ started' = started + 1
  /\ traceIds' = Append(traceIds, req'.traceId)
  /\ UNCHANGED <<pureVars, loadVars>>

\* makeCancellableRequest: the request is made with the controller's signal
\* and the controller is handed to the caller
CallMakeCancellableRequest ==
  /\ req.pc \in {"idle", "settled"}
  /\ started < MaxRequests
  /\ \E method \in {"GET", "POST"}, path \in Paths, request \in CallerRequests :
       req' = makeRequest(method, path, request, WithControllerSignal(request), TRUE)
  /\ started' = started + 1
  /\ traceIds' = Append(traceIds, req'.traceId)
  /\ UNCHANGED <<pureVars, loadVars>>

\* the transport has been given the controller's signal and it is aborted
SignalAborted(r) == r.aborted /\ Get(r.requestOptions, "signal") = ControllerSignal
InFlight(r) == r.pc \in {"fetching", "parsing"}

\* the caller calls controller.abort()
Abort ==
  /\ req.pc # "idle"
  /\ req.cancellable
  /\ ~req.aborted
  /\ req' = [req EXCEPT !.aborted = TRUE, !.abortedInFlight = InFlight(req)]
  /\ UNCHANGED <<pureVars, loadVars, started, traceIds>>

Rejected(r, error) ==
  [r EXCEPT !.pc = "settled", !.outcome = [kind |-> "rejected", error |-> error]]

\* fetch resolves with a response
FetchResolves ==
  /\ req.pc = "fetching"
  /\ ~SignalAborted(req)
  /\ \E status \in Statuses, contentType \in ContentTypes, payload \in Payloads :
       req' = AfterFetch(req, Response(status, contentType, payload))
  /\ UNCHANGED <<pureVars, loadVars, started, traceIds>>

\* fetch rejects with a network failure: the await rethrows it
FetchFails ==
  /\ req.pc = "fetching"
  /\ ~SignalAborted(req)
  /\ req' = Rejected(req, [name |-> "TypeError"])
  /\ UNCHANGED <<pureVars, loadVars, started, traceIds>>

\* the transport aborts the call: fetch, or the read of the body, rejects with
\* its abort error, and the await rethrows it
TransportAborts ==
  /\ InFlight(req)
  /\ SignalAborted(req)
  /\ req' = Rejected(req, [name |-> "AbortError"])
  /\ UNCHANGED <<pureVars, loadVars, started, traceIds>>

\* the body has been read: processResponse settles, then the ok check runs
BodyRead ==
  /\ req.pc = "parsing"
  /\ ~SignalAborted(req)
  /\ req' = AfterParse(req)
  /\ UNCHANGED <<pureVars, loadVars, started, traceIds>>

InitRequest == InitPure({Null}) /\ InitModule
NextRequest ==
  \/ ImportResolves
  \/ ImportRejects
  \/ CallMakeRequest
  \/ CallMakeCancellableRequest
  \/ Abort
  \/ FetchResolves
  \/ FetchFails
  \/ TransportAborts
  \/ BodyRead
SpecRequest == InitRequest /\ [][NextRequest]_vars

(***************************************************************************)
(* The sanitizer and the query string builder (SpecSanitizer)              *)
(***************************************************************************)
Sanitized(elements) == [i \in DOMAIN elements |-> prepareParameters(elements[i])]
IsObject(e) == e.t = "object"
IsNonEmptyObject(e) == e.t = "object" /\ e.o # <<>>
\* C9 as stated: sanitizing an array keeps the order, drops the elements that
\* sanitize to absent, and keeps an object element if and only if it still has
\* keys after sanitization.
C9_ObjectSurvivesIffNonEmpty ==
  (op.name = "prepareParameters" /\ input.t = "array") =>
    /\ ret.t = "array"
    /\ \A j \in DOMAIN ret.a : ret.a[j] # Null
    /\ SelectSeq(ret.a, IsObject) = SelectSeq(Sanitized(input.a), IsNonEmptyObject)

\* C10: the sanitizer is idempotent: sanitizing the sanitized value gives the
\* sanitized value again.
C10_SanitizerIdempotent ==
  op.name = "prepareParametersAgain" => ret = prepareParameters(input)

\* {id:{a:''}} has been sanitized twice, and is {id:{}} as after the first pass
C10_Witness ==
  /\ op.name = "prepareParametersAgain"
  /\ input = Obj(<<Entry("id", Obj(<<Entry("a", EmptyStr)>>))>>)
  /\ ret = Obj(<<Entry("id", Obj(<<>>))>>)

IsNonEmptyScalar(v) == v.t \in {"string", "number", "boolean"} /\ ~IsAbsent(v)
IsScalarList(v) == v.t = "array" /\ \A j \in DOMAIN v.a : IsNonEmptyScalar(v.a[j])
\* the pairs of the repeated-key format: one 'k=vi' per element, in order
RepeatedPairs(e) ==
  IF e.v.t = "array"
    THEN [j \in DOMAIN e.v.a |-> <<e.k, "=">> \o ToText(e.v.a[j])]
    ELSE <<<<e.k, "=">> \o ToText(e.v)>>

\* C2 as stated: a parameter whose value is an array of non-empty scalars is
\* encoded in repeated-key format, one 'k=vi' pair per element, joined by '&'
\* after the leading '?'.
C2_RepeatedKeyFormat ==
  (/\ op.name = "buildSearchString"
   /\ input.t = "object"
   /\ \A i \in DOMAIN input.o : IsNonEmptyScalar(input.o[i].v) \/ IsScalarList(input.o[i].v)
   /\ \E i \in DOMAIN input.o : input.o[i].v.t = "array" /\ input.o[i].v.a # <<>>)
  => ret = <<"?">> \o Join(Flatten([i \in DOMAIN input.o |-> RepeatedPairs(input.o[i])]),
                           <<"&">>)

(***************************************************************************)
(* The request assemblers (SpecAssembler)                                  *)
(***************************************************************************)
\* the template with each ':name' segment replaced by params[name]
TemplateBoundTo(unboundPath, params) ==
  LET segments == SplitOn(unboundPath, "/")
  IN Join([i \in DOMAIN segments |->
             IF IsPathParameter(segments[i])
               THEN SegmentText(Get(params, PathParameterKey(segments[i])))
               ELSE segments[i]],
          <<"/">>)
\* the params without the keys consumed as path parameters
WithoutPathParameters(unboundPath, params) ==
  Obj(SelectSeq(params.o, LAMBDA e : e.k \notin PathParameterKeys(unboundPath)))

\* C1 as stated: for every method, base path (a relative one such as
\* '/api/v1' included), template and params, buildMergedRequestInit returns
\* without raising; the URL is the base path followed by the bound template;
\* for GET the remaining parameters are the query string and no body is
\* attached; for any other method there is no query string and the body is
\* the params minus the path-parameter keys.
C1_MergedRoutesByMethod ==
  op.name = "buildMergedRequestInit" =>
    LET params == OrEmptyObject(input)
        rest == WithoutPathParameters(op.unboundPath, params)
        path == op.basePath \o TemplateBoundTo(op.unboundPath, params)
    IN /\ ~ret.raised
       /\ ret.method = op.method
       /\ IF op.method = "GET"
            THEN /\ ret.url = path \o buildSearchString(rest)
                 /\ ~HasKey(OrEmptyObject(ret.init), "body")
            ELSE /\ ret.url = path
                 /\ Get(ret.init, "body") = rest

\* C5: neither assembler changes what the caller passed in: after
\* buildSplitRequestInit returns, the path-parameter object, the
\* query-parameter object and the body are as they were, and the returned body
\* is the value passed in; after buildMergedRequestInit returns, the caller's
\* params are as they were, path-parameter keys included.
C5_CallerValuesUnchanged ==
  /\ (op.name = "buildSplitRequestInit" /\ ~ret.raised) =>
       /\ after.pathParameters = op.pathParameters
       /\ after.queryParameters = input
       /\ after.body = op.body
       /\ Get(ret.init, "body") = op.body
  /\ (op.name = "buildMergedRequestInit" /\ ~ret.raised) =>
       after.params = input

\* POST '' '/users/:id' {id:'42', active:true} has returned '/users/42' with
\* the body {active:true}, and the caller still holds {id:'42', active:true}
C5_Witness ==
  /\ op.name = "buildMergedRequestInit"
  /\ op.method = "POST"
  /\ input = GetUserParams
  /\ ~ret.raised
  /\ ret.url = <<"/", "users", "/", "42">>
  /\ Get(ret.init, "body") = Obj(<<Entry("active", Bool(TRUE))>>)
  /\ HasKey(after.params, "id")

(***************************************************************************)
(* The request executor (SpecRequest)                                      *)
(***************************************************************************)
\* the response was received and its body parsed without the call being cut
\* short: the ok check has run
Checked == req.pc = "settled" /\ req.steps = <<"fetch", "parse", "check">>
SentHeader(name) == Get(Get(req.requestOptions, "headers"), name)
CallerHeaders == Get(OrEmptyObject(req.request), "headers")
CallerSets(name) == HasKey(OrEmptyObject(req.request), name)
\* the body's 'error' field, else its 'message' field, else the status
MessageOf(body, status) ==
  IF body.t = "object" /\ Truthy(Get(body, "error")) THEN ToText(Get(body, "error"))
  ELSE IF body.t = "object" /\ Truthy(Get(body, "message")) THEN ToText(Get(body, "message"))
  ELSE <<ToString(status)>>

C4_AbortRejectsWithAbortError ==
  req.abortedInFlight =>
    /\ SignalAborted(req)
    /\ req.pc = "settled" =>
         req.outcome = [kind |-> "rejected", error |-> [name |-> "AbortError"]]

\* a call made with the caller's own signal in its options was aborted while
\* its body was being read, and has been rejected with the abort error
C4_Witness ==
  /\ req.abortedInFlight
  /\ req.request = Obj(<<Entry("signal", CallerSignal)>>)
  /\ req.response.status = 404
  /\ req.pc = "settled"
  /\ req.outcome.error.name = "AbortError"

\* C6 as stated: whatever the caller supplies, the options handed to the
\* transport have credentials 'include', mode 'cors' and the method of the
\* first argument.
C6_AlwaysIncludeAndCors ==
  req.pc # "idle" =>
    /\ Get(req.requestOptions, "credentials") = Str(<<"include">>)
    /\ Get(req.requestOptions, "mode") = Str(<<"cors">>)
    /\ Get(req.requestOptions, "method") = Str(<<req.method>>)

DefaultOption(name) ==
  CASE name = "method" -> Str(<<req.method>>)
    [] name = "credentials" -> Str(<<"include">>)
    [] name = "mode" -> Str(<<"cors">>)
DefaultHeader(name) ==
  CASE name = "Accept" -> Str(<<"application/json">>)
    [] name = "Content-Type" -> Str(<<"application/json">>)
    [] name = "X-Trace" -> Str(req.traceId)

\* C6, amended: credentials 'include', mode 'cors' and the method of the first
\* argument are defaults: the options handed to the transport carry them
\* unless the caller's request options supply credentials, mode or method, and
\* then the caller's value is sent; likewise the caller's headers override the
\* default headers Accept, Content-Type and X-Trace.
C6_DefaultsUnlessCallerSupplies ==
  req.pc # "idle" =>
    /\ \A name \in {"method", "credentials", "mode"} :
         Get(req.requestOptions, name) =
           IF CallerSets(name) THEN Get(req.request, name) ELSE DefaultOption(name)
    /\ \A name \in {"Accept", "Content-Type", "X-Trace"} :
         SentHeader(name) =
           IF CallerHeaders.t = "object" /\ HasKey(CallerHeaders, name)
             THEN Get(CallerHeaders, name)
             ELSE DefaultHeader(name)

\* a request made with { credentials: 'omit' } is sent with credentials 'omit'
C6_Witness ==
  /\ req.pc = "fetching"
  /\ req.request = Obj(<<Entry("credentials", Str(<<"omit">>))>>)
  /\ Get(req.requestOptions, "credentials") = Str(<<"omit">>)
  /\ Get(req.requestOptions, "mode") = Str(<<"cors">>)

IsPrefix(p, q) == Len(p) <= Len(q) /\ SubSeq(q, 1, Len(p)) = p

\* C7: the steps of makeRequest occur in the order transport call, body
\* parsing, success check; an error response too is parsed before it is
\* checked, so an APIError is raised only after its body was parsed, and a
\* parse failure on a non-2xx response propagates the parse error, not an
\* APIError.
C7_ParseBeforeCheck ==
  /\ IsPrefix(req.steps, <<"fetch", "parse", "check">>)
  /\ (req.outcome.kind = "rejected" /\ req.outcome.error.name = "APIError") =>
       /\ Checked
       /\ req.responseBody = processResponse(req.response).value
  /\ (req.pc = "settled" /\ "parse" \in {req.steps[i] : i \in DOMAIN req.steps}
        /\ processResponse(req.response).raised) =>
       req.outcome = [kind |-> "rejected", error |-> processResponse(req.response).error]

\* a 404 that declares JSON and carries no JSON has been rejected with the
\* parser's SyntaxError
C7_Witness ==
  /\ req.pc = "settled"
  /\ req.response.status = 404
  /\ req.response.contentType = "application/json"
  /\ req.response.payload.kind = "text"
  /\ req.steps = <<"fetch", "parse">>
  /\ req.outcome.error.name = "SyntaxError"

Occurrences(id) == Len(SelectSeq(traceIds, LAMBDA x : x = id))

\* C8: the generator slot starts unset, is assigned at most once, by the one
\* load started at module initialization, and is never unset afterwards; a
\* request made at any point of that load sends an empty trace id if the slot
\* is unset when it reads it and one freshly generated id otherwise; a failed
\* load is swallowed and leaves the slot unset, so every request sends an
\* empty trace id.
C8_SlotWriteOnce ==
  /\ slotWrites <= 1
  /\ (uuid = "v4") <=> (slotWrites = 1)
  /\ (uuid = "v4") <=> (loader = "loaded")
  /\ loader = "failed" => \A i \in DOMAIN traceIds : traceIds[i] = <<>>
  /\ Len(traceIds) = started
  /\ req.pc # "idle" =>
       /\ traceIds[started] = req.traceId
       /\ IF req.slotAtRead = "undefined"
            THEN req.traceId = <<>>
            ELSE req.traceId # <<>> /\ Occurrences(req.traceId) = 1

\* a request made before the load resolved sent an empty trace id, and the
\* next one, made after it, a generated id
C8_Witness ==
  /\ loader = "loaded"
  /\ traceIds = << <<>>, <<"uuid", "1">> >>
  /\ req.pc = "settled"
  /\ req.outcome.kind = "resolved"

====
